---- MODULE Spec2Model ----
(***************************************************************************)
(* Model of packages/ml-service/src/main.py: the GRC ML service, a FastAPI *)
(* application with four routes over a module-level list MOCK_MODELS.      *)
(*                                                                         *)
(* Numbers.  A float is modelled by the exact rational it stands for, a    *)
(* record [num, den] with den > 0, in units of 1.  A value returned after  *)
(* round(x, 3) is an integer count of thousandths (0.95 is 950, 10.0 is    *)
(* 10000), and so is the accuracy of a registry record.                    *)
(* np.random.random() is a multiple k / UniformDen with 0 <= k <           *)
(* UniformDen, np.random.normal(6.5, 1.5) a multiple n / NormalDen of any  *)
(* sign and size; datetime.now() is a reading 0..MaxTime of the clock.     *)
(***************************************************************************)
EXTENDS Integers, Sequences, FiniteSets

VARIABLES
    MOCK_MODELS,    \* the module-level registry list
    healthSeen,     \* the distinct responses GET /health has returned so far
    modelsLog,      \* the last MaxLog responses of GET /models, oldest first
    predictCall,    \* the last POST /predict: its body and the generator's next draws
    predictResult,  \* the outcome of that call: the branch taken and the HTTP response
    rootResp        \* the last response of GET /, None before the first

vars == <<MOCK_MODELS, healthSeen, modelsLog, predictCall, predictResult, rootResp>>

\* ---------------------------------------------------------------- bounds
UniformDen == 1000
NormalDen == 2000
MaxTime == 1
MaxLog == 2

None == [none |-> TRUE]

Times == 0..MaxTime

\* The values of np.random.random() the model draws: both ends of [0, 1)
\* and the middle.
UniformDraws == {0, UniformDen \div 2, UniformDen - 1}

\* The values of np.random.normal(6.5, 1.5) the model draws: below the lower
\* clamp limit, the mean, just below and just above the upper clamp limit,
\* and far above it.
NormalDraws ==
    {-1, (13 * NormalDen) \div 2, 10 * NormalDen - 1, 10 * NormalDen + 1, 13 * NormalDen}

\* ------------------------------------------------------------ arithmetic
Rat(n, d) == [num |-> n, den |-> d]

RatAdd(a, b) == Rat(a.num * b.den + b.num * a.den, a.den * b.den)

RatMul(a, b) == Rat(a.num * b.num, a.den * b.den)

RatLess(a, b) == a.num * b.den < b.num * a.den

\* Python's min(a, b) and max(a, b): the first argument unless the second
\* is strictly smaller (larger).
PyMin(a, b) == IF RatLess(b, a) THEN b ELSE a

PyMax(a, b) == IF RatLess(a, b) THEN b ELSE a

\* round(x, 3), in thousandths: the nearest thousandth, a tie to the even one.
Round3(x) ==
    LET n == 1000 * x.num
        q == n \div x.den
        r == n % x.den
    IN  IF 2 * r < x.den THEN q
        ELSE IF 2 * r > x.den THEN q + 1
        ELSE IF q % 2 = 0 THEN q ELSE q + 1

isoformat(now) == <<"iso", now>>

\* -------------------------------------------------------------- registry
InitialModels ==
    << [id |-> "risk-predictor-local",
        name |-> "Risk Prediction Model (Local)",
        type |-> "risk_prediction",
        status |-> "active",
        accuracy |-> 847,
        version |-> "1.0.0-local"],
       [id |-> "data-quality-local",
        name |-> "Data Quality Checker (Local)",
        type |-> "data_quality",
        status |-> "active",
        accuracy |-> 923,
        version |-> "1.0.0-local"] >>

\* ---------------------------------------------------------------- schemas
HealthResponse(status, timestamp, models_loaded) ==
    [status |-> status, timestamp |-> timestamp, models_loaded |-> models_loaded]

ModelInfo(model) ==
    [id |-> model.id, name |-> model.name, type |-> model.type,
     status |-> model.status, accuracy |-> model.accuracy, version |-> model.version]

\* Mutant: the response carries the application's version, not the record's.
PredictionResponseAppVersion(prediction, confidence, model_version, timestamp) ==
    [status_code |-> 200,
     body |-> [prediction |-> prediction, confidence |-> confidence,
               model_version |-> "0.1.0-local", timestamp |-> timestamp]]

PredictionResponse(prediction, confidence, model_version, timestamp) ==
    [status_code |-> 200,
     body |-> [prediction |-> prediction, confidence |-> confidence,
               model_version |-> model_version, timestamp |-> timestamp]]

HTTPException(status_code, detail) ==
    [status_code |-> status_code, body |-> [detail |-> detail]]

\* A request body is a JSON object, a record that may lack fields.
PredictionRequestFields == {"tenant_id", "model_type", "data"}

Tenants == {"t1", "t2"}

ModelTypes == {"risk_prediction", "data_quality", "", "anomaly_detection"}

Datas == { {}, {<<"severity", "high">>} }

ValidBodies ==
    [tenant_id : Tenants, model_type : ModelTypes, data : Datas]

InvalidBodies ==
    [tenant_id : Tenants, data : {{}}] \cup [model_type : {"risk_prediction"}, data : {{}}]

Bodies == ValidBodies \cup InvalidBodies

\* Mutant: validation also rejects a body whose data is empty.
PredictionRequestNonEmptyData(body) ==
    /\ PredictionRequestFields \subseteq DOMAIN body
    /\ body.data # {}

\* FastAPI builds the PredictionRequest from the body before predict runs.
PredictionRequest(body) == PredictionRequestFields \subseteq DOMAIN body

\* ---------------------------------------------------------------- /health
\* Mutant: the count leaves one record out.
HealthPayloadOffByOne(models, now) ==
    HealthResponse("healthy", isoformat(now), Len(models) - 1)

HealthPayload(models, now) ==
    HealthResponse("healthy", isoformat(now), Len(models))

health_check ==
    \E now \in Times :
        /\ healthSeen' = healthSeen \cup {HealthPayload(MOCK_MODELS, now)}
        /\ UNCHANGED <<MOCK_MODELS, modelsLog, predictCall, predictResult, rootResp>>

\* ---------------------------------------------------------------- /models
\* Mutant: the list is returned newest first.
ModelsPayloadReversed(models) ==
    [i \in 1..Len(models) |-> ModelInfo(models[Len(models) + 1 - i])]

ModelsPayload(models) == [i \in 1..Len(models) |-> ModelInfo(models[i])]

\* The log keeps the newest MaxLog entries.
Logged(log, entry) ==
    LET all == Append(log, entry)
    IN  IF Len(all) > MaxLog THEN SubSeq(all, Len(all) - MaxLog + 1, Len(all)) ELSE all

\* Mutant: the handler reverses the registry in place after reading it.
get_modelsReversing ==
    /\ modelsLog' = Logged(modelsLog, ModelsPayload(MOCK_MODELS))
    /\ MOCK_MODELS' = [i \in 1..Len(MOCK_MODELS) |-> MOCK_MODELS[Len(MOCK_MODELS) + 1 - i]]
    /\ UNCHANGED <<healthSeen, predictCall, predictResult, rootResp>>

get_models ==
    /\ modelsLog' = Logged(modelsLog, ModelsPayload(MOCK_MODELS))
    /\ UNCHANGED <<MOCK_MODELS, healthSeen, predictCall, predictResult, rootResp>>

\* --------------------------------------------------------------- /predict
\* Mutant: the lookup compares the record's id, not its type.
RECURSIVE LookupById(_, _)
LookupById(models, model_type) ==
    IF models = <<>> THEN None
    ELSE IF Head(models).id = model_type THEN Head(models)
    ELSE LookupById(Tail(models), model_type)

\* Mutant: the lookup defaults to the first record, not to None.
RECURSIVE LookupDefaultFirst(_, _)
LookupDefaultFirst(models, model_type) ==
    IF models = <<>> THEN InitialModels[1]
    ELSE IF Head(models).type = model_type THEN Head(models)
    ELSE LookupDefaultFirst(Tail(models), model_type)

\* next((m for m in models if m["type"] == model_type), None)
RECURSIVE Lookup(_, _)
Lookup(models, model_type) ==
    IF models = <<>> THEN None
    ELSE IF Head(models).type = model_type THEN Head(models)
    ELSE Lookup(Tail(models), model_type)

NotFoundDetail(model_type) == <<"Model type '", model_type, "' not found">>

\* Mutant: the upper clamp is missing.
RiskPredictionNoUpperClamp(normal) ==
    PyMax(Rat(0, 1), Rat(normal, NormalDen))

RiskPrediction(normal) ==
    PyMax(Rat(0, 1), PyMin(Rat(10, 1), Rat(normal, NormalDen)))

RiskConfidence(random) ==
    RatAdd(Rat(75, 100), RatMul(Rat(random, UniformDen), Rat(2, 10)))

DataQualityPrediction(random) ==
    RatAdd(Rat(7, 10), RatMul(Rat(random, UniformDen), Rat(25, 100)))

\* Mutant: the confidence of the generic branch, copied into this one.
DataQualityConfidenceGeneric(random) ==
    RatAdd(Rat(6, 10), RatMul(Rat(random, UniformDen), Rat(3, 10)))

DataQualityConfidence(random) ==
    RatAdd(Rat(8, 10), RatMul(Rat(random, UniformDen), Rat(15, 100)))

GenericPrediction(random) == Rat(random, UniformDen)

GenericConfidence(random) ==
    RatAdd(Rat(6, 10), RatMul(Rat(random, UniformDen), Rat(3, 10)))

\* The branch of the if/elif/else of predict a model type selects.
Branch(model_type) ==
    IF model_type = "risk_prediction" THEN "risk_prediction"
    ELSE IF model_type = "data_quality" THEN "data_quality"
    ELSE "generic"

\* The next two values of the generator as a call would draw them: the
\* normal draw and one uniform draw in the risk_prediction branch, two
\* uniform draws in the other two.  A call that fails before the branches
\* draws nothing, and the values are then fixed at 0.
DrawsFor(models, body) ==
    IF ~PredictionRequest(body) THEN {<<0, 0>>}
    ELSE IF Lookup(models, body.model_type) = None THEN {<<0, 0>>}
    ELSE IF Branch(body.model_type) = "risk_prediction"
         THEN NormalDraws \X UniformDraws
         ELSE UniformDraws \X UniformDraws

\* The whole of a POST /predict: validation by the framework, then the body
\* of predict.  The result names the branch taken and the HTTP response.
Predict(models, body, draws, now) ==
    IF ~PredictionRequest(body)
    THEN [branch |-> "rejected",
          response |-> HTTPException(422, <<"validation error">>)]
    ELSE
    LET model == Lookup(models, body.model_type)
        branch == Branch(body.model_type)
        prediction ==
            IF branch = "risk_prediction" THEN RiskPrediction(draws[1])
            ELSE IF branch = "data_quality" THEN DataQualityPrediction(draws[1])
            ELSE GenericPrediction(draws[1])
        confidence ==
            IF branch = "risk_prediction" THEN RiskConfidence(draws[2])
            ELSE IF branch = "data_quality" THEN DataQualityConfidence(draws[2])
            ELSE GenericConfidence(draws[2])
    IN  IF model = None
        THEN [branch |-> "not_found",
              response |-> HTTPException(404, NotFoundDetail(body.model_type))]
        ELSE [branch |-> branch,
              response |-> PredictionResponse(Round3(prediction), Round3(confidence),
                                              model.version, isoformat(now))]

\* Mutant: a successful call removes the first record from the registry.
predictPopping ==
    \E body \in Bodies, now \in Times :
        \E draws \in DrawsFor(MOCK_MODELS, body) :
            /\ predictCall' = [body |-> body, draws |-> draws]
            /\ predictResult' = Predict(MOCK_MODELS, body, draws, now)
            /\ MOCK_MODELS' = IF predictResult'.response.status_code = 200
                              THEN Tail(MOCK_MODELS) ELSE MOCK_MODELS
            /\ UNCHANGED <<healthSeen, modelsLog, rootResp>>

predict ==
    \E body \in Bodies, now \in Times :
        \E draws \in DrawsFor(MOCK_MODELS, body) :
            /\ predictCall' = [body |-> body, draws |-> draws]
            /\ predictResult' = Predict(MOCK_MODELS, body, draws, now)
            /\ UNCHANGED <<MOCK_MODELS, healthSeen, modelsLog, rootResp>>

\* ---------------------------------------------------------------------- /
RootPayload ==
    [service |-> "GRC ML Service",
     version |-> "0.1.0-local",
     status |-> "running",
     endpoints |-> [health |-> "/health", models |-> "/models", predict |-> "/predict"]]

root ==
    /\ rootResp' = RootPayload
    /\ UNCHANGED <<MOCK_MODELS, healthSeen, modelsLog, predictCall, predictResult>>

\* ------------------------------------------------------------------ system
Init ==
    /\ MOCK_MODELS = InitialModels
    /\ healthSeen = {}
    /\ modelsLog = <<>>
    /\ predictCall = None
    /\ predictResult = None
    /\ rootResp = None

Next == health_check \/ get_models \/ predict \/ root

Spec == Init /\ [][Next]_vars

\* ------------------------------------------------------------------ claims
Called == predictCall # None

Succeeded == Called /\ predictResult.response.status_code = 200

ValidCall == Called /\ PredictionRequestFields \subseteq DOMAIN predictCall.body

KnownTypes == {"risk_prediction", "data_quality"}

\* The indices of the registry records of a type.
Matches(model_type) ==
    {i \in 1..Len(MOCK_MODELS) : MOCK_MODELS[i].type = model_type}

First(S) == CHOOSE i \in S : \A j \in S : i <= j

\* C1: a successful /predict response carries the version of the first
\* registry record whose type is the request's model_type; when no record
\* has that type the request fails and no PredictionResponse is built.
ModelVersionOfFirstMatch ==
    Called =>
        LET response == predictResult.response
            found == IF ValidCall THEN Matches(predictCall.body.model_type) ELSE {}
        IN  /\ response.status_code = 200 =>
                /\ found # {}
                /\ response.body.model_version = MOCK_MODELS[First(found)].version
            /\ found = {} =>
                /\ response.status_code # 200
                /\ "model_version" \notin DOMAIN response.body

ModelVersionWitness ==
    /\ Succeeded
    /\ predictCall.body.model_type = "data_quality"
    /\ predictResult.response.body.model_version = "1.0.0-local"

\* C2: a schema-valid /predict request gets a 404 whose detail names the
\* requested model_type exactly when that type is neither risk_prediction
\* nor data_quality, and gets a 200 otherwise.
UnknownTypeIsNotFound ==
    ValidCall =>
        LET response == predictResult.response
            model_type == predictCall.body.model_type
        IN  IF model_type \in KnownTypes
            THEN response.status_code = 200
            ELSE /\ response.status_code = 404
                 /\ \E i \in DOMAIN response.body.detail :
                        response.body.detail[i] = model_type

UnknownTypeWitness ==
    /\ ValidCall
    /\ predictCall.body.model_type = ""
    /\ predictResult.response.status_code = 404

RiskCall == Succeeded /\ predictCall.body.model_type = "risk_prediction"

\* C3 as stated: a risk_prediction response has 0 <= prediction <= 10 and
\* 0.75 <= confidence < 0.95, as returned.
RiskRangesHalfOpen ==
    RiskCall =>
        /\ 0 <= predictResult.response.body.prediction
        /\ predictResult.response.body.prediction <= 10000
        /\ 750 <= predictResult.response.body.confidence
        /\ predictResult.response.body.confidence < 950

\* C3 amended: a risk_prediction response has 0 <= prediction <= 10 and
\* 0.75 <= confidence <= 0.95, as returned: the rounding takes a confidence
\* of 0.9495 or more to 0.95.
RiskRangesClosed ==
    RiskCall =>
        /\ 0 <= predictResult.response.body.prediction
        /\ predictResult.response.body.prediction <= 10000
        /\ 750 <= predictResult.response.body.confidence
        /\ predictResult.response.body.confidence <= 950

RiskRangesWitness ==
    /\ RiskCall
    /\ predictCall.draws = <<10 * NormalDen - 1, UniformDen - 1>>
    /\ predictResult.response.body.prediction = 10000
    /\ predictResult.response.body.confidence = 950

DataQualityCall == Succeeded /\ predictCall.body.model_type = "data_quality"

\* C4 as stated: a data_quality response has 0.7 <= prediction < 0.95 and
\* 0.8 <= confidence < 0.95, as returned.
DataQualityRangesHalfOpen ==
    DataQualityCall =>
        /\ 700 <= predictResult.response.body.prediction
        /\ predictResult.response.body.prediction < 950
        /\ 800 <= predictResult.response.body.confidence
        /\ predictResult.response.body.confidence < 950

\* C4 amended: a data_quality response has 0.7 <= prediction <= 0.95 and
\* 0.8 <= confidence <= 0.95, as returned: the rounding takes a value of
\* 0.9495 or more to 0.95.
DataQualityRangesClosed ==
    DataQualityCall =>
        /\ 700 <= predictResult.response.body.prediction
        /\ predictResult.response.body.prediction <= 950
        /\ 800 <= predictResult.response.body.confidence
        /\ predictResult.response.body.confidence <= 950

DataQualityRangesWitness ==
    /\ DataQualityCall
    /\ predictCall.draws = <<UniformDen - 1, 0>>
    /\ predictResult.response.body.prediction = 950
    /\ predictResult.response.body.confidence = 800

\* C5: in every reachable state GET /health answers status "healthy" and
\* models_loaded 2: every response it has returned did, and the response
\* it would return now does.
HealthReportsTwoModels ==
    /\ \A h \in healthSeen : h.status = "healthy" /\ h.models_loaded = 2
    /\ \A now \in Times :
           /\ HealthPayload(MOCK_MODELS, now).status = "healthy"
           /\ HealthPayload(MOCK_MODELS, now).models_loaded = 2

HealthWitness ==
    /\ healthSeen # {}
    /\ Succeeded
    /\ rootResp # None

\* C6: GET /models returns exactly two records, risk-predictor-local of type
\* risk_prediction and then data-quality-local of type data_quality, each
\* with the field values of the static registry.
ModelsListExact ==
    \A k \in DOMAIN modelsLog :
        LET payload == modelsLog[k]
        IN  /\ Len(payload) = 2
            /\ payload[1].id = "risk-predictor-local"
            /\ payload[1].type = "risk_prediction"
            /\ payload[2].id = "data-quality-local"
            /\ payload[2].type = "data_quality"
            /\ \A i \in 1..2 :
                   /\ payload[i] = InitialModels[i]
                   /\ payload[i].status = "active"
                   /\ payload[i].version = "1.0.0-local"

ModelsListWitness ==
    /\ modelsLog # <<>>
    /\ Called
    /\ predictResult.branch = "rejected"

WithoutTimestamp(h) == [status |-> h.status, models_loaded |-> h.models_loaded]

\* C7: any two GET /models responses of a process are identical, and any two
\* GET /health responses are identical but for the timestamp, whatever the
\* requests between them.
ReadsIdempotent ==
    /\ \A i, j \in DOMAIN modelsLog : modelsLog[i] = modelsLog[j]
    /\ \A g, h \in healthSeen : WithoutTimestamp(g) = WithoutTimestamp(h)

ReadsIdempotentWitness ==
    /\ Len(modelsLog) >= 2
    /\ Cardinality(healthSeen) >= 2
    /\ Called
    /\ predictResult.branch = "risk_prediction"

\* C8: no handler changes the registry: after any request MOCK_MODELS holds
\* the two records of process start, unchanged and in the same order.
RegistryNeverChanges == MOCK_MODELS = InitialModels

RegistryWitness ==
    /\ healthSeen # {}
    /\ modelsLog # <<>>
    /\ rootResp # None
    /\ Called
    /\ predictResult.branch = "not_found"

\* C9: the generic fallback branch of predict is never taken: a model type
\* that passes the registry lookup selects the risk_prediction branch or the
\* data_quality branch.
FallbackUnreachable ==
    /\ Called => predictResult.branch # "generic"
    /\ \A model_type \in ModelTypes :
           Lookup(MOCK_MODELS, model_type) # None => Branch(model_type) \in KnownTypes

FallbackWitness ==
    /\ Called
    /\ predictResult.branch = "data_quality"
    /\ predictCall.body.tenant_id = "t2"

\* C10: the outcome of /predict does not depend on tenant_id or data: the
\* same model_type with the same draws gives the same status code, and on
\* success the same model_version, prediction and confidence, for every
\* tenant_id and data.
OutcomeIgnoresTenantAndData ==
    ValidCall =>
        \A tenant_id \in Tenants, data \in Datas, now \in Times :
            LET body == [tenant_id |-> tenant_id,
                         model_type |-> predictCall.body.model_type,
                         data |-> data]
                other == Predict(MOCK_MODELS, body, predictCall.draws, now).response
                response == predictResult.response
            IN  /\ other.status_code = response.status_code
                /\ response.status_code = 200 =>
                       /\ other.body.model_version = response.body.model_version
                       /\ other.body.prediction = response.body.prediction
                       /\ other.body.confidence = response.body.confidence

OutcomeIgnoresWitness ==
    /\ Succeeded
    /\ predictCall.body.tenant_id = "t2"
    /\ predictCall.body.data # {}

====
